---- MODULE Spec2Model ----
(***************************************************************************)
(* Formeer: per-field and per-form reactive state (src/src/instances.ts,   *)
(* the revision of lines 155-402).  Containers live in two class-level     *)
(* registries; a field pushes its value into its form's value object       *)
(* through the subscription the form takes in registerField.               *)
(*                                                                         *)
(* JavaScript objects are held by reference: `heap` maps a reference to    *)
(* the object's own properties, and a variable that holds an object holds  *)
(* its reference.  A plain object is a function from its own keys.         *)
(***************************************************************************)
EXTENDS Integers, Sequences, FiniteSets, TLC

VARIABLES
    formInstances,   \* Formeer.instances: form name -> Formeer
    fieldInstances,  \* FormeerField.instances: key -> FormeerField
    heap,            \* reference -> own properties of a values object
    calls,           \* async calls in flight (submitForm, triggerValidation)
    held,            \* values objects handed out to callers: reference + content then
    built,           \* registry key -> number of constructor runs for that key
    last,            \* the most recent operation and what it did
    subs,            \* subscriptions of callers to error$() and errors$() streams
    metas,           \* subscriptions of callers to meta$() streams, with their timers
    steps            \* operations performed so far

vars == <<formInstances, fieldInstances, heap, calls, held, built, last, subs, metas,
          steps>>

-----------------------------------------------------------------------------
(* Bounds of the model *)

MaxSteps == 5        \* operations in one behaviour
MaxCalls == 2        \* async calls in flight at once
MaxHeld == 1         \* values objects a caller keeps hold of
MaxSubs == 1         \* subscriptions to derived streams

-----------------------------------------------------------------------------
(* JavaScript values *)

Undefined == "<undefined>"     \* void 0
Throw == "<throw>"             \* a call that raised instead of returning

EmptyObject == <<>>            \* {}

\* const { k } = obj: an absent property reads as undefined
Prop(obj, k) == IF k \in DOMAIN obj THEN obj[k] ELSE Undefined

\* lodash get(object, path, defaultValue) for a single-key path
LodashGet(h, ref, path) == Prop(h[ref], path)

\* lodash set(object, path, value) for a single-key path: writes the property
\* into the object itself and returns that same object.
LodashSet(h, ref, path, value) ==
    LET obj == [k \in DOMAIN h[ref] \cup {path} |->
                    IF k = path THEN value ELSE h[ref][k]]
    IN  [heap |-> [h EXCEPT ![ref] = obj], ref |-> ref]

\* The validators a caller may configure (TValidator: (value, values) => error).
\*   "required":  v => v.length === 0 ? "required" : undefined
\*                (reading .length of undefined raises a TypeError)
\*   "confirm":   (v, values) => v === values.email ? undefined : "mismatch"
Validate(validator, value, values) ==
    CASE validator = "required" ->
            IF value = Undefined THEN Throw
            ELSE IF value = "" THEN "required" ELSE Undefined
      [] validator = "confirm" ->
            IF value = Prop(values, "email") THEN Undefined ELSE "mismatch"
      [] OTHER -> Undefined

-----------------------------------------------------------------------------
(* The world an operation runs in: the registries, the heap, the log of   *)
(* the validator invocations the operation made, the writes it made into   *)
(* values objects, the submit handlers it invoked, what it sent down the   *)
(* subjects of fields, whether it raised or warned, and what it returns    *)
(* (when it does not raise).                                               *)

World == [forms |-> formInstances, fields |-> fieldInstances, heap |-> heap,
          calls |-> calls, built |-> built,
          log |-> <<>>, writes |-> <<>>, invoked |-> <<>>, sent |-> <<>>,
          threw |-> FALSE, warned |-> FALSE, ret |-> Undefined]

\* obj[k] = v on a registry object or a counter table
Put(fn, k, v) == [j \in DOMAIN fn \cup {k} |-> IF j = k THEN v ELSE fn[j]]

Count(fn, k) == IF k \in DOMAIN fn THEN fn[k] ELSE 0

\* `${formeerInstance.name}-${name}`
Key(form, name) == form \o "-" \o name

\* errors$(hideUntouched) without a filter argument, and with one
NoFilter == [given |-> FALSE, names |-> <<>>]
OnlyFilter(names) == [given |-> TRUE, names |-> names]

\* Formeer.currentValues
currentValues(W, f) == W.forms[f].values

\* Formeer.setFieldValue: this.setValues$.next(set(this.setValues$.value, name, value))
setFieldValue(W, f, name, value) ==
    LET r == LodashSet(W.heap, W.forms[f].values, name, value)
    IN  [W EXCEPT !.heap = r.heap, !.forms[f].values = r.ref,
                  !.writes = Append(@, [form |-> f, name |-> name, value |-> value])]

\* the observers of a field's setValue$ are notified in subscription order
RECURSIVE Notify(_, _, _, _)
Notify(W, observers, name, value) ==
    IF observers = <<>> THEN W
    ELSE Notify(setFieldValue(W, Head(observers), name, value),
                Tail(observers), name, value)

\* this.setValue$.next(value): store, then notify the subscribers
Next_setValue(W, key, value) ==
    LET W1 == [W EXCEPT !.fields[key].value = value,
                        !.sent = Append(@, [key |-> key, subject |-> "setValue$"])]
    IN  Notify(W1, W1.fields[key].observers, W1.fields[key].name, value)

\* a validation that hands the validator the value only: validator(value)
runValidationValueOnly(W, key, value) ==
    LET fld == W.fields[key]
        r == Validate(fld.validator, value, EmptyObject)
        call == [key |-> key, value |-> value,
                 own |-> LodashGet(W.heap, currentValues(W, fld.form), fld.name),
                 result |-> r]
    IN  IF fld.isDisabled THEN W
        ELSE IF fld.validator = Undefined THEN W
        ELSE IF r = Throw
             THEN [W EXCEPT !.log = Append(@, call), !.threw = TRUE]
             ELSE [W EXCEPT !.log = Append(@, call), !.fields[key].error = r]

\* a validation that clears the stored error before it calls the validator
runValidationClearFirst(W, key, value) ==
    LET fld == W.fields[key]
        r == Validate(fld.validator, value, W.heap[currentValues(W, fld.form)])
        call == [key |-> key, value |-> value,
                 own |-> LodashGet(W.heap, currentValues(W, fld.form), fld.name),
                 result |-> r]
    IN  IF fld.isDisabled THEN W
        ELSE IF fld.validator = Undefined THEN W
        ELSE IF r = Throw
             THEN [W EXCEPT !.log = Append(@, call), !.threw = TRUE,
                            !.fields[key].error = Undefined]
             ELSE [W EXCEPT !.log = Append(@, call), !.fields[key].error = r]

\* FormeerField.runValidation(value = this.setValue$.value)
runValidation(W, key, value) ==
    LET fld == W.fields[key]
        r == Validate(fld.validator, value, W.heap[currentValues(W, fld.form)])
        call == [key |-> key, value |-> value,
                 own |-> LodashGet(W.heap, currentValues(W, fld.form), fld.name),
                 result |-> r]
    IN  IF fld.isDisabled THEN W
        ELSE IF fld.validator = Undefined THEN W
        ELSE IF r = Throw
             THEN [W EXCEPT !.log = Append(@, call), !.threw = TRUE]
             \* this.setError$.next(newError)
             ELSE [W EXCEPT !.log = Append(@, call), !.fields[key].error = r,
                            !.sent = Append(@, [key |-> key, subject |-> "setError$"])]

\* a registration whose subscription delivers nothing until the next change
registerFieldLazy(W, f, key) ==
    LET name == W.fields[key].name
        W1 == IF W.forms[f].initializeValues
              THEN Next_setValue(W, key, LodashGet(W.heap, W.forms[f].values, name))
              ELSE W
    IN  [W1 EXCEPT !.fields[key].observers = Append(@, f),
                   !.forms[f].subscriptions = Append(@, key),
                   !.forms[f].fieldNames = Append(@, name)]

\* a registration that never pushes the tree's value into the field
registerFieldKeepOwn(W, f, key) ==
    LET name == W.fields[key].name
        W2 == [W EXCEPT !.fields[key].observers = Append(@, f)]
        W3 == setFieldValue(W2, f, name, W2.fields[key].value)
    IN  [W3 EXCEPT !.forms[f].subscriptions = Append(@, key),
                   !.forms[f].fieldNames = Append(@, name)]

\* Formeer.registerField(fieldInstance)
registerField(W, f, key) ==
    LET name == W.fields[key].name
        \* fieldInstance.setValue(get(this.setValues$.value, fieldInstance.name, void 0))
        W1 == IF W.forms[f].initializeValues
              THEN Next_setValue(W, key, LodashGet(W.heap, W.forms[f].values, name))
              ELSE W
        \* value$.subscribe(...): a BehaviorSubject delivers its current value at once
        W2 == [W1 EXCEPT !.fields[key].observers = Append(@, f)]
        W3 == setFieldValue(W2, f, name, W2.fields[key].value)
    IN  [W3 EXCEPT !.forms[f].subscriptions = Append(@, key),
                   !.forms[f].fieldNames = Append(@, name)]

\* a constructor that does not validate at the end
FieldConstructorNoValidate(W, f, fieldName, options) ==
    LET key == Key(f, fieldName)
        initialValue == Prop(options, "initialValue")
        this == [form |-> f, name |-> fieldName, value |-> Undefined,
                 error |-> Undefined, isTouched |-> FALSE, isDisabled |-> FALSE,
                 validator |-> Undefined, observers |-> <<>>,
                 serial |-> Count(W.built.fields, key) + 1]
        W1 == [W EXCEPT !.fields = Put(@, key, this),
                        !.built.fields = Put(@, key, Count(@, key) + 1)]
        W2 == IF initialValue # Undefined THEN Next_setValue(W1, key, initialValue) ELSE W1
        W3 == [W2 EXCEPT !.fields[key].validator = Prop(options, "validator")]
    IN  registerField(W3, f, key)

\* a constructor that registers with the form before it stores the initial value
FieldConstructorRegisterFirst(W, f, fieldName, options) ==
    LET key == Key(f, fieldName)
        initialValue == Prop(options, "initialValue")
        this == [form |-> f, name |-> fieldName, value |-> Undefined,
                 error |-> Undefined, isTouched |-> FALSE, isDisabled |-> FALSE,
                 validator |-> Prop(options, "validator"), observers |-> <<>>,
                 serial |-> Count(W.built.fields, key) + 1]
        W1 == [W EXCEPT !.fields = Put(@, key, this),
                        !.built.fields = Put(@, key, Count(@, key) + 1)]
        W2 == registerField(W1, f, key)
        W3 == IF initialValue # Undefined THEN Next_setValue(W2, key, initialValue) ELSE W2
    IN  runValidation(W3, key, W3.fields[key].value)

\* new FormeerField(formeerInstance, fieldName, options)
FieldConstructor(W, f, fieldName, options) ==
    LET key == Key(f, fieldName)
        initialValue == Prop(options, "initialValue")
        this == [form |-> f, name |-> fieldName, value |-> Undefined,
                 error |-> Undefined, isTouched |-> FALSE, isDisabled |-> FALSE,
                 validator |-> Undefined, observers |-> <<>>,
                 serial |-> Count(W.built.fields, key) + 1]
        \* FormeerField.instances[key] = this
        W1 == [W EXCEPT !.fields = Put(@, key, this),
                        !.built.fields = Put(@, key, Count(@, key) + 1)]
        W2 == IF initialValue # Undefined THEN Next_setValue(W1, key, initialValue) ELSE W1
        W3 == [W2 EXCEPT !.fields[key].validator = Prop(options, "validator")]
        W4 == registerField(W3, f, key)
    IN  runValidation(W4, key, W4.fields[key].value)

\* what a lookup returns: the registry entry, known by the constructor run that
\* made it (serial), and whether this lookup made it (fresh)
Returned(entry, fresh) == [serial |-> entry.serial, fresh |-> fresh]

\* a lookup that constructs on every call
FieldGetInstanceAlways(W, f, name, options) ==
    LET W1 == FieldConstructor(W, f, name, options)
    IN  [W1 EXCEPT !.ret = Returned(W1.fields[Key(f, name)], TRUE)]

\* a lookup that hands the options of a later call to the existing container
FieldGetInstanceReconfigure(W, f, name, options) ==
    LET key == Key(f, name)
        fresh == key \notin DOMAIN W.fields
        W1 == IF fresh THEN FieldConstructor(W, f, name, options)
              ELSE [W EXCEPT !.fields[key].validator = Prop(options, "validator")]
    IN  [W1 EXCEPT !.ret = Returned(W1.fields[key], fresh)]

\* FormeerField.getInstance(formeerInstance, name, options)
FieldGetInstance(W, f, name, options) ==
    LET key == Key(f, name)
        fresh == key \notin DOMAIN W.fields
        W1 == IF fresh THEN FieldConstructor(W, f, name, options) ELSE W
    IN  [W1 EXCEPT !.ret = Returned(W1.fields[key], fresh)]

\* new Formeer(name, options)
FormConstructor(W, name, options) ==
    LET initialValues == Prop(options, "initialValues")
        \* setValues$ = new BehaviorSubject({})
        h1 == Append(W.heap, EmptyObject)
        \* this.setValues$.next(initialValues): the caller's own object
        h2 == IF "initialValues" \in DOMAIN options THEN Append(h1, initialValues) ELSE h1
        this == [name |-> name, values |-> Len(h2), fieldNames |-> <<>>,
                 isSubmitting |-> FALSE, subscriptions |-> <<>>,
                 initializeValues |-> ("initializeValues" \in DOMAIN options
                                       /\ options.initializeValues),
                 submitHandler |-> Prop(options, "onSubmit"),
                 serial |-> Count(W.built.forms, name) + 1]
    IN  [W EXCEPT !.heap = h2, !.forms = Put(@, name, this),
                  !.built.forms = Put(@, name, Count(@, name) + 1)]

\* Formeer.getInstance(name, initialValues): the second argument is handed to the
\* constructor in the place of its options
FormGetInstance(W, name, initialValues) ==
    LET fresh == name \notin DOMAIN W.forms
        W1 == IF fresh THEN FormConstructor(W, name, initialValues) ELSE W
    IN  [W1 EXCEPT !.ret = Returned(W1.forms[name], fresh)]

\* a change handler that validates before it stores the value
handleChangeValidateFirst(W, key, value) ==
    Next_setValue(runValidation(W, key, value), key, value)

\* FormeerField.handleChange(value)
handleChange(W, key, value) ==
    runValidation(Next_setValue(W, key, value), key, value)

\* a blur handler that validates without marking the field touched
onBlurHandlerValidateOnly(W, key) == runValidation(W, key, W.fields[key].value)

\* FormeerField.onBlurHandler: setIsTouched$.next(true), then runValidation()
onBlurHandler(W, key) ==
    LET W1 == [W EXCEPT !.fields[key].isTouched = TRUE,
                        !.sent = Append(@, [key |-> key, subject |-> "setIsTouched$"])]
    IN  runValidation(W1, key, W1.fields[key].value)

\* FormeerField.setError(error)
setError(W, key, error) ==
    [W EXCEPT !.fields[key].error = error,
              !.sent = Append(@, [key |-> key, subject |-> "setError$"])]

\* a setIsDisabled that also drops the value of a field it disables
setIsDisabledClearing(W, key, isDisabled) ==
    LET W1 == [W EXCEPT !.fields[key].isDisabled = isDisabled]
    IN  IF isDisabled THEN Next_setValue(W1, key, Undefined) ELSE W1

\* FormeerField.setIsDisabled(isDisabled)
setIsDisabled(W, key, isDisabled) ==
    [W EXCEPT !.fields[key].isDisabled = isDisabled,
              !.sent = Append(@, [key |-> key, subject |-> "setIsDisabled$"])]

\* FormeerField.setIsTouched(isTouched)
setIsTouched(W, key, isTouched) ==
    [W EXCEPT !.fields[key].isTouched = isTouched,
              !.sent = Append(@, [key |-> key, subject |-> "setIsTouched$"])]

\* FormeerField.setValue(value)
setValue(W, key, value) == Next_setValue(W, key, value)

\* seq without its first element equal to x
RECURSIVE RemoveFirst(_, _)
RemoveFirst(seq, x) ==
    IF seq = <<>> THEN <<>>
    ELSE IF Head(seq) = x THEN Tail(seq)
    ELSE <<Head(seq)>> \o RemoveFirst(Tail(seq), x)

\* seq without its i-th element
RemoveAt(seq, i) == SubSeq(seq, 1, i - 1) \o SubSeq(seq, i + 1, Len(seq))

\* subscription.unsubscribe() for each subscription the form holds
RECURSIVE Unsubscribe(_, _, _)
Unsubscribe(W, f, subscriptions) ==
    IF subscriptions = <<>> THEN W
    ELSE Unsubscribe([W EXCEPT !.fields[Head(subscriptions)].observers = RemoveFirst(@, f)],
                     f, Tail(subscriptions))

\* a destroy that drops its list of subscriptions without unsubscribing
destroyForgetOnly(W, f) == [W EXCEPT !.forms[f].subscriptions = <<>>]

\* a destroy that raises when there is nothing left to unsubscribe
destroyOnce(W, f) ==
    IF W.forms[f].subscriptions = <<>>
    THEN [W EXCEPT !.threw = TRUE]
    ELSE [Unsubscribe(W, f, W.forms[f].subscriptions) EXCEPT !.forms[f].subscriptions = <<>>]

\* Formeer.destroy()
destroy(W, f) ==
    [Unsubscribe(W, f, W.forms[f].subscriptions) EXCEPT !.forms[f].subscriptions = <<>>]

\* Formeer.setSubmitFormHandler(submitHandler)
setSubmitFormHandler(W, f, submitHandler) ==
    [W EXCEPT !.forms[f].submitHandler = submitHandler]

\* a submitForm that does not look for a handler first
submitFormUnguarded(W, f) ==
    LET ref == W.forms[f].values
    IN  [W EXCEPT !.forms[f].isSubmitting = TRUE, !.ret = "<pending>",
                  !.calls = Append(@, [kind |-> "submitForm", form |-> f,
                                       pc |-> "await", values |-> ref,
                                       atCall |-> W.heap[ref], names |-> <<>>,
                                       handler |-> W.forms[f].submitHandler])]

\* Formeer.submitForm(), up to its await: the values$ subject hands over its
\* current value at once, the rest of the function runs in a later microtask
submitForm(W, f) ==
    LET ref == W.forms[f].values
    IN  IF W.forms[f].submitHandler = Undefined
        THEN [W EXCEPT !.warned = TRUE]
        ELSE [W EXCEPT !.forms[f].isSubmitting = TRUE, !.ret = "<pending>",
                       !.calls = Append(@, [kind |-> "submitForm", form |-> f,
                                            pc |-> "await", values |-> ref,
                                            atCall |-> W.heap[ref], names |-> <<>>,
                                            handler |-> W.forms[f].submitHandler])]

\* Formeer.submitForm() after its await: invoke whatever handler is configured now.
\* The handlers a caller may configure:
\*   "sync" returns nothing, "throws" raises, "async" returns a pending Promise
submitFormResume(W, i) ==
    LET c == W.calls[i]
        handler == W.forms[c.form].submitHandler
        \* this.submitHandler(values): calling undefined raises a TypeError
        W1 == IF handler = Undefined THEN W
              ELSE [W EXCEPT !.invoked = Append(@, handler)]
    IN  CASE handler = "async" -> [W1 EXCEPT !.calls[i].pc = "pending"]
          [] handler = "sync" -> [W1 EXCEPT !.forms[c.form].isSubmitting = FALSE,
                                            !.calls = RemoveAt(@, i)]
          [] OTHER -> [W1 EXCEPT !.threw = TRUE, !.calls = RemoveAt(@, i)]

\* the handler's Promise settles: probablyAwaitable.then(() => setIsSubmitting$.next(false))
submitFormSettle(W, i, fulfilled) ==
    LET c == W.calls[i]
    IN  IF fulfilled
        THEN [W EXCEPT !.forms[c.form].isSubmitting = FALSE, !.calls = RemoveAt(@, i)]
        ELSE [W EXCEPT !.calls = RemoveAt(@, i)]

\* Formeer.triggerValidation(), up to its await
triggerValidation(W, f) ==
    [W EXCEPT !.calls = Append(@, [kind |-> "triggerValidation", form |-> f,
                                   pc |-> "await", values |-> W.forms[f].values,
                                   atCall |-> EmptyObject,
                                   names |-> W.forms[f].fieldNames,
                                   handler |-> Undefined])]

\* fieldNames.forEach(name => FormeerField.getInstance(this, name).runValidation())
RECURSIVE ValidateEach(_, _, _)
ValidateEach(W, f, names) ==
    IF names = <<>> \/ W.threw THEN W
    ELSE LET W1 == FieldGetInstance(W, f, Head(names), EmptyObject)
             key == Key(f, Head(names))
         IN  IF W1.threw THEN W1
             ELSE ValidateEach(runValidation(W1, key, W1.fields[key].value), f, Tail(names))

\* a triggerValidation that validates nothing after its await
triggerValidationResumeSkip(W, i) ==
    [W EXCEPT !.calls = RemoveAt(@, i), !.ret = Undefined]

\* Formeer.triggerValidation() after its await
triggerValidationResume(W, i) ==
    LET c == W.calls[i]
    IN  [ValidateEach([W EXCEPT !.calls = RemoveAt(@, i)], c.form, c.names)
            EXCEPT !.ret = Undefined]

-----------------------------------------------------------------------------
(* The derived streams.  Each is a combineLatest of BehaviorSubjects behind *)
(* debounceTime(150): a subscriber receives nothing at once, and when the   *)
(* timers have run out it receives what the stream's map functions make of  *)
(* the latest values of the subjects.                                       *)

\* a stream that shows a disabled field's error
error_stream_raw(fields, key, pure) ==
    LET fld == fields[key]
    IN  [emits |-> TRUE,
         error |-> IF pure \/ fld.isTouched THEN fld.error ELSE Undefined]

\* FormeerField.error$(pure): what the stream delivers once its timers have run out
error_stream(fields, key, pure) ==
    LET fld == fields[key]
        \* map(([error, isDisabled]) => !isDisabled ? error : undefined)
        shown == IF ~fld.isDisabled THEN fld.error ELSE Undefined
    IN  [emits |-> TRUE,
         error |-> IF pure THEN shown
                   \* map(([error, isTouched]) => isTouched ? error : undefined)
                   ELSE IF fld.isTouched THEN shown ELSE Undefined]

\* !!error
Truthy(error) == error # Undefined /\ error # ""

\* errors$ with error$(hideUntouched) in the place of error$(!hideUntouched)
errors_stream_flipped(forms, fields, f, hideUntouched, filter) ==
    LET Kept(name) == \E i \in DOMAIN filter.names : filter.names[i] = name
        fieldNames == IF filter.given THEN SelectSeq(forms[f].fieldNames, Kept)
                      ELSE forms[f].fieldNames
        errors == [i \in DOMAIN fieldNames |->
                       error_stream(fields, Key(f, fieldNames[i]), hideUntouched).error]
    IN  [emits |-> fieldNames # <<>>, list |-> SelectSeq(errors, Truthy)]

\* Formeer.errors$(hideUntouched, filter): what the stream delivers once its
\* timers have run out.  combineLatest of no streams completes without a value,
\* so nothing is delivered while no registered name passes the filter.
errors_stream(forms, fields, f, hideUntouched, filter) ==
    LET Kept(name) == \E i \in DOMAIN filter.names : filter.names[i] = name
        fieldNames == IF filter.given THEN SelectSeq(forms[f].fieldNames, Kept)
                      ELSE forms[f].fieldNames
        \* FormeerField.getInstance(this, name).error$(!hideUntouched)
        errors == [i \in DOMAIN fieldNames |->
                       error_stream(fields, Key(f, fieldNames[i]), ~hideUntouched).error]
    IN  [emits |-> fieldNames # <<>>, list |-> SelectSeq(errors, Truthy)]

\* a new subscription: nothing received yet, the first emission is in the timer
Subscription(kind, on, flag, filter) ==
    [kind |-> kind, on |-> on, flag |-> flag, filter |-> filter,
     waiting |-> TRUE, emitted |-> FALSE, error |-> Undefined, list |-> <<>>]

\* the timers of subscription s run out
Deliver(W, s) ==
    IF s.kind = "error$"
    THEN LET out == error_stream(W.fields, s.on, s.flag)
         IN  IF out.emits
             THEN [s EXCEPT !.waiting = FALSE, !.emitted = TRUE, !.error = out.error]
             ELSE [s EXCEPT !.waiting = FALSE]
    ELSE LET out == errors_stream(W.forms, W.fields, s.on, s.flag, s.filter)
         IN  IF out.emits
             THEN [s EXCEPT !.waiting = FALSE, !.emitted = TRUE, !.list = out.list]
             ELSE [s EXCEPT !.waiting = FALSE]

\* meta$(debounceDelay): combineLatest([error$(), isDisabled$, isTouched$,
\* value$]) behind debounceTime(debounceDelay).  A subscriber holds two timers,
\* the one of error$()'s debounceTime(150) ("error$") and the one of meta$'s own
\* debounceTime ("meta$"); `timers` lists the pending ones in the order they
\* were set.  `shown` is the last value error$() delivered to combineLatest,
\* `ready` whether it has delivered one; `count` counts the snapshots received
\* since a subject of the field last emitted.
MetaSubscription(key, debounceDelay) ==
    [on |-> key, delay |-> debounceDelay,
     \* on subscription the subjects emit at once: error$()'s timer is set, and
     \* combineLatest waits for error$()'s first value
     timers |-> <<"error$">>, ready |-> FALSE, shown |-> Undefined,
     count |-> 0,
     snapshot |-> [error |-> Undefined, isDisabled |-> FALSE, isTouched |-> FALSE,
                   value |-> Undefined]]

\* debounceTime: a new value cancels the pending timer and sets a new one
Reschedule(timers, t) ==
    LET Other(x) == x # t
    IN  Append(SelectSeq(timers, Other), t)

\* a subject of the subscriber's field emits.  setError$ feeds error$() only;
\* setIsDisabled$ feeds error$() (subscribed first) and combineLatest;
\* setIsTouched$ and setValue$ feed combineLatest, which emits once every input
\* has delivered a value
Emit(m, subject) ==
    LET inner == IF subject \in {"setError$", "setIsDisabled$"}
                 THEN Reschedule(m.timers, "error$") ELSE m.timers
        outer == IF subject # "setError$" /\ m.ready
                 THEN Reschedule(inner, "meta$") ELSE inner
    IN  [m EXCEPT !.timers = outer, !.count = 0]

\* what an operation sent down the subjects, in order, as subscriber m sees it
RECURSIVE EmitAll(_, _)
EmitAll(m, sent) ==
    IF sent = <<>> THEN m
    ELSE EmitAll(IF Head(sent).key = m.on THEN Emit(m, Head(sent).subject) ELSE m,
                 Tail(sent))

\* timers of equal length run out in the order they were set; a meta$ timer
\* shorter than error$()'s 150 ms may run out before an error$() timer set
\* earlier
Due(m, t) ==
    /\ \E i \in DOMAIN m.timers : m.timers[i] = t
    /\ \/ Head(m.timers) = t
       \/ t = "meta$" /\ m.delay < 150

\* error$()'s timer runs out: map(([error, isDisabled]) => ...) of the latest
\* values reaches combineLatest, which emits and sets meta$'s timer anew
FireError(fields, m) ==
    LET Other(x) == x # "error$"
    IN  [m EXCEPT !.shown = error_stream(fields, m.on, TRUE).error,
                  !.ready = TRUE,
                  !.timers = Reschedule(SelectSeq(m.timers, Other), "meta$")]

\* meta$'s timer runs out: the subscriber receives the latest array combineLatest
\* emitted, as ({ error, isDisabled, isTouched, value })
FireMeta(fields, m) ==
    LET Other(x) == x # "meta$"
    IN  [m EXCEPT !.timers = SelectSeq(m.timers, Other),
                  !.count = @ + 1,
                  !.snapshot = [error |-> m.shown,
                                isDisabled |-> fields[m.on].isDisabled,
                                isTouched |-> fields[m.on].isTouched,
                                value |-> fields[m.on].value]]

-----------------------------------------------------------------------------
(* The operations a caller can invoke, one action each.  `last` records    *)
(* the operation, its receiver and argument, the validator invocations it  *)
(* made, whether it raised or warned, and what it returned.                *)

Record(W, op, on, arg) ==
    /\ formInstances' = W.forms
    /\ fieldInstances' = W.fields
    /\ heap' = W.heap
    /\ calls' = W.calls
    /\ built' = W.built
    /\ last' = [op |-> op, on |-> on, arg |-> arg, log |-> W.log, writes |-> W.writes,
                invoked |-> W.invoked,
                threw |-> W.threw, warned |-> W.warned, ret |-> W.ret]

\* debounceTime(150): whatever an operation sends down a subscribed stream
\* waits in the stream's timer, so after an operation a subscription may have
\* an emission outstanding
Disturb(subscriptions) ==
    [i \in DOMAIN subscriptions |-> [subscriptions[i] EXCEPT !.waiting = TRUE]]

Commit(W, op, on, arg) ==
    /\ Record(W, op, on, arg)
    /\ subs' = Disturb(subs)
    /\ metas' = [j \in DOMAIN metas |-> EmitAll(metas[j], W.sent)]

Init ==
    /\ formInstances = <<>>
    /\ fieldInstances = <<>>
    /\ heap = <<>>
    /\ calls = <<>>
    /\ held = <<>>
    /\ built = [forms |-> <<>>, fields |-> <<>>]
    /\ last = [op |-> "none", on |-> "", arg |-> Undefined, log |-> <<>>,
               writes |-> <<>>, invoked |-> <<>>,
               threw |-> FALSE, warned |-> FALSE, ret |-> Undefined]
    /\ subs = <<>>
    /\ metas = <<>>
    /\ steps = 0

\* Formeer.getInstance(f) or Formeer.getInstance(f, initialValues)
GetForm(f, arg) ==
    /\ Commit(FormGetInstance(World, f, IF arg.given THEN arg.obj ELSE EmptyObject),
              "Formeer.getInstance", f, arg)
    /\ UNCHANGED held

\* FormeerField.getInstance(form, n, options)
GetField(f, n, options) ==
    /\ f \in DOMAIN formInstances
    /\ Commit(FieldGetInstance(World, f, n, options), "FormeerField.getInstance",
              Key(f, n), options)
    /\ UNCHANGED held

\* the change handler of field k fires with value v
Change(k, v) ==
    /\ k \in DOMAIN fieldInstances
    /\ Commit(handleChange(World, k, v), "onChange", k, v)
    /\ UNCHANGED held

SetValue(k, v) ==
    /\ k \in DOMAIN fieldInstances
    /\ Commit(setValue(World, k, v), "setValue", k, v)
    /\ UNCHANGED held

\* the blur handler of field k fires
Blur(k) ==
    /\ k \in DOMAIN fieldInstances
    /\ Commit(onBlurHandler(World, k), "onBlur", k, Undefined)
    /\ UNCHANGED held

SetError(k, e) ==
    /\ k \in DOMAIN fieldInstances
    /\ Commit(setError(World, k, e), "setError", k, e)
    /\ UNCHANGED held

SetIsDisabled(k, b) ==
    /\ k \in DOMAIN fieldInstances
    /\ Commit(setIsDisabled(World, k, b), "setIsDisabled", k, b)
    /\ UNCHANGED held

SetIsTouched(k, b) ==
    /\ k \in DOMAIN fieldInstances
    /\ Commit(setIsTouched(World, k, b), "setIsTouched", k, b)
    /\ UNCHANGED held

\* field.runValidation() called from outside
RunValidation(k) ==
    /\ k \in DOMAIN fieldInstances
    /\ Commit(runValidation(World, k, fieldInstances[k].value), "runValidation",
              k, Undefined)
    /\ UNCHANGED held

Destroy(f) ==
    /\ f \in DOMAIN formInstances
    /\ Commit(destroy(World, f), "destroy", f, Len(formInstances[f].subscriptions))
    /\ UNCHANGED held

SetSubmitFormHandler(f, h) ==
    /\ f \in DOMAIN formInstances
    /\ Commit(setSubmitFormHandler(World, f, h), "setSubmitFormHandler", f, h)
    /\ UNCHANGED held

SubmitForm(f) ==
    /\ f \in DOMAIN formInstances
    /\ formInstances[f].submitHandler # Undefined => Len(calls) < MaxCalls
    /\ Commit(submitForm(World, f), "submitForm", f, Undefined)
    /\ UNCHANGED held

TriggerValidation(f) ==
    /\ f \in DOMAIN formInstances
    /\ Len(calls) < MaxCalls
    /\ Commit(triggerValidation(World, f), "triggerValidation", f, Undefined)
    /\ UNCHANGED held

\* the microtask that continues call i after its await
Resume(i) ==
    /\ i \in DOMAIN calls
    /\ calls[i].pc = "await"
    /\ IF calls[i].kind = "submitForm"
       THEN Commit(submitFormResume(World, i), "submitForm.resume", calls[i].form,
                   calls[i].handler)
       ELSE Commit(triggerValidationResume(World, i), "triggerValidation.resume",
                   calls[i].form, calls[i].names)
    /\ UNCHANGED held

\* the Promise a submit handler returned settles
Settle(i, fulfilled) ==
    /\ i \in DOMAIN calls
    /\ calls[i].pc = "pending"
    /\ Commit(submitFormSettle(World, i, fulfilled), "submitForm.settle",
              calls[i].form, fulfilled)
    /\ UNCHANGED held

\* a caller reads form.currentValues and keeps the object
CurrentValues(f) ==
    /\ f \in DOMAIN formInstances
    /\ Len(held) < MaxHeld
    /\ held' = Append(held, [ref |-> formInstances[f].values,
                             seen |-> heap[formInstances[f].values]])
    /\ Commit(World, "currentValues", f, Undefined)

\* a caller subscribes to field.error$(pure)
SubscribeError(k, pure) ==
    /\ k \in DOMAIN fieldInstances
    /\ Len(subs) < MaxSubs
    /\ subs' = Append(subs, Subscription("error$", k, pure, NoFilter))
    /\ Record(World, "error$.subscribe", k, pure)
    /\ UNCHANGED <<held, metas>>

\* a caller subscribes to form.errors$(hideUntouched, filter)
SubscribeErrors(f, hideUntouched, filter) ==
    /\ f \in DOMAIN formInstances
    /\ Len(subs) < MaxSubs
    /\ subs' = Append(subs, Subscription("errors$", f, hideUntouched, filter))
    /\ Record(World, "errors$.subscribe", f, hideUntouched)
    /\ UNCHANGED <<held, metas>>

\* time passes until every debounce timer has run out
Quiet ==
    /\ \E i \in DOMAIN subs : subs[i].waiting
    /\ \A j \in DOMAIN metas : metas[j].timers = <<>>
    /\ subs' = [i \in DOMAIN subs |-> Deliver(World, subs[i])]
    /\ Record(World, "quiet", "", Undefined)
    /\ UNCHANGED <<held, metas>>

\* a caller subscribes to field.meta$(debounceDelay)
SubscribeMeta(k, debounceDelay) ==
    /\ k \in DOMAIN fieldInstances
    /\ Len(metas) < MaxSubs
    /\ metas' = Append(metas, MetaSubscription(k, debounceDelay))
    /\ Record(World, "meta$.subscribe", k, debounceDelay)
    /\ UNCHANGED <<held, subs>>

\* the pending timer t of meta$ subscription j runs out
Timer(j, t) ==
    /\ j \in DOMAIN metas
    /\ Due(metas[j], t)
    /\ metas' = [metas EXCEPT ![j] = IF t = "error$" THEN FireError(fieldInstances, @)
                                     ELSE FireMeta(fieldInstances, @)]
    /\ Record(World, "timer", metas[j].on, t)
    /\ UNCHANGED <<held, subs>>

-----------------------------------------------------------------------------
(* What the callers use: names, arguments, values *)

NoArgument == [given |-> FALSE, obj |-> EmptyObject]
PlainValues == [given |-> TRUE, obj |-> [email |-> ""]]
AsOptions == [given |-> TRUE,
              obj |-> [initialValues |-> [email |-> ""], initializeValues |-> TRUE]]
WithHandler == [given |-> TRUE, obj |-> [onSubmit |-> "async"]]
ValuesOnly == [given |-> TRUE, obj |-> [initialValues |-> [email |-> ""]]]

FormArgs == {NoArgument, PlainValues, AsOptions, WithHandler}

FieldOptions ==
    { EmptyObject,
      [validator |-> "required"],
      [initialValue |-> "", validator |-> "required"],
      [initialValue |-> "a@b.com"] }

Values == {Undefined, "", "a@b.com"}

Errors == {Undefined, "forced"}

Handlers == {Undefined, "sync", "async", "throws"}

FormNames == {"login"}

FieldNames == {"email", "pw"}

Keys == {Key(f, n) : f \in FormNames, n \in FieldNames}

-----------------------------------------------------------------------------
(* Spec: every operation, in any order, on one form with two fields, in    *)
(* behaviours of at most MaxSteps operations.                              *)

\* one operation of a behaviour of at most MaxSteps operations
Step(A) == steps < MaxSteps /\ A /\ steps' = steps + 1

Next ==
    \/ \E f \in FormNames, a \in FormArgs : Step(GetForm(f, a))
    \/ \E f \in FormNames, n \in FieldNames, o \in FieldOptions : Step(GetField(f, n, o))
    \/ \E k \in Keys, v \in Values : Step(Change(k, v))
    \/ \E k \in Keys, v \in Values : Step(SetValue(k, v))
    \/ \E k \in Keys : Step(Blur(k))
    \/ \E k \in Keys, e \in Errors : Step(SetError(k, e))
    \/ \E k \in Keys, b \in BOOLEAN : Step(SetIsDisabled(k, b))
    \/ \E k \in Keys, b \in BOOLEAN : Step(SetIsTouched(k, b))
    \/ \E k \in Keys : Step(RunValidation(k))
    \/ \E f \in FormNames : Step(Destroy(f))
    \/ \E f \in FormNames : Step(TriggerValidation(f))
    \/ \E f \in FormNames : Step(SubmitForm(f))
    \/ \E f \in FormNames, h \in Handlers : Step(SetSubmitFormHandler(f, h))
    \/ \E f \in FormNames : Step(CurrentValues(f))
    \/ \E i \in 1..MaxCalls : Step(Resume(i))
    \/ \E i \in 1..MaxCalls, b \in BOOLEAN : Step(Settle(i, b))

Spec == Init /\ [][Next]_vars

-----------------------------------------------------------------------------
(* SpecField: one form with one field and every field operation, explored *)
(* to the end (no limit on the number of operations).                      *)

\* one operation of a behaviour of any length
Free(A) == A /\ UNCHANGED steps

OneField == {Key("login", "email")}

\* FieldOptions and a validator that reads the form values
OneFieldOptions == FieldOptions \cup {[validator |-> "confirm"]}

NextField ==
    \/ \E a \in {NoArgument, AsOptions} : Free(GetForm("login", a))
    \/ \E o \in OneFieldOptions : Free(GetField("login", "email", o))
    \/ \E k \in OneField, v \in Values : Free(Change(k, v))
    \/ \E k \in OneField, v \in Values : Free(SetValue(k, v))
    \/ \E k \in OneField : Free(Blur(k))
    \/ \E k \in OneField, e \in Errors : Free(SetError(k, e))
    \/ \E k \in OneField, b \in BOOLEAN : Free(SetIsDisabled(k, b))
    \/ \E k \in OneField, b \in BOOLEAN : Free(SetIsTouched(k, b))
    \/ \E k \in OneField : Free(RunValidation(k))
    \/ Free(Destroy("login"))
    \/ Free(TriggerValidation("login"))
    \/ \E i \in 1..MaxCalls : Free(Resume(i))

SpecField == Init /\ [][NextField]_vars

-----------------------------------------------------------------------------
(* SpecRegistry: two forms and two field names whose registry keys         *)
(* collide ("a" + "b-c" and "a-b" + "c"), lookups, changes and destroy,    *)
(* explored to the end.                                                    *)

RegistryForms == {"a", "a-b"}

RegistryFields == {"b-c", "c"}

RegistryKeys == {Key(f, n) : f \in RegistryForms, n \in RegistryFields}

RegistryOptions == {EmptyObject, [initialValue |-> ""]}

NextRegistry ==
    \/ \E f \in RegistryForms, a \in {NoArgument, PlainValues} : Free(GetForm(f, a))
    \/ \E f \in RegistryForms, n \in RegistryFields, o \in RegistryOptions :
            Free(GetField(f, n, o))
    \/ \E k \in RegistryKeys, v \in {"a@b.com"} : Free(Change(k, v))
    \/ \E f \in RegistryForms : Free(Destroy(f))

SpecRegistry == Init /\ [][NextRegistry]_vars

-----------------------------------------------------------------------------
(* SpecSubmit: one form with one field, value changes and the submission   *)
(* life cycle, explored to the end.                                        *)

SubmitOptions == {[initialValue |-> ""]}

NextSubmit ==
    \/ \E a \in {NoArgument, WithHandler} : Free(GetForm("login", a))
    \/ \E o \in SubmitOptions : Free(GetField("login", "email", o))
    \/ \E k \in OneField, v \in {"a@b.com"} : Free(Change(k, v))
    \/ \E h \in Handlers : Free(SetSubmitFormHandler("login", h))
    \/ Free(SubmitForm("login"))
    \/ \E i \in 1..MaxCalls : Free(Resume(i))
    \/ \E i \in 1..MaxCalls, b \in BOOLEAN : Free(Settle(i, b))
    \/ Free(Destroy("login"))

SpecSubmit == Init /\ [][NextSubmit]_vars

-----------------------------------------------------------------------------
(* SpecStreams: one form with two fields that have validators, value       *)
(* changes, blur, disabling, and callers subscribed to error$() and        *)
(* errors$(), explored to the end.                                         *)

EmailOptions == [initialValue |-> "", validator |-> "required"]

PwOptions == [initialValue |-> "a@b.com", validator |-> "confirm"]

NextStreams ==
    \/ Free(GetForm("login", NoArgument))
    \/ Free(GetField("login", "email", EmailOptions))
    \/ Free(GetField("login", "pw", PwOptions))
    \/ \E k \in Keys, v \in {"", "a@b.com"} : Free(Change(k, v))
    \/ \E k \in Keys : Free(Blur(k))
    \/ \E k \in Keys, b \in BOOLEAN : Free(SetIsDisabled(k, b))
    \/ Free(SubscribeError(Key("login", "email"), TRUE))
    \/ Free(SubscribeErrors("login", TRUE, NoFilter))
    \/ Free(SubscribeErrors("login", FALSE, OnlyFilter(<<"pw">>)))
    \/ Free(Quiet)

SpecStreams == Init /\ [][NextStreams]_vars

-----------------------------------------------------------------------------
(* SpecLogin: the form "login" obtained with the initial values             *)
(* {email: ""}, handed over as the values themselves or as the              *)
(* initialValues option, and the field "email" obtained with the validator  *)
(* "required" and no initial value; changes, blur and validation on         *)
(* demand, explored to the end.                                             *)

LoginOptions == [validator |-> "required"]

NextLogin ==
    \/ \E a \in {PlainValues, ValuesOnly} : Free(GetForm("login", a))
    \/ \E o \in {LoginOptions, EmptyObject} : Free(GetField("login", "email", o))
    \/ \E k \in OneField, v \in Values : Free(Change(k, v))
    \/ \E k \in OneField : Free(Blur(k))
    \/ \E k \in OneField : Free(RunValidation(k))
    \/ Free(TriggerValidation("login"))
    \/ \E i \in 1..MaxCalls : Free(Resume(i))

SpecLogin == Init /\ [][NextLogin]_vars

-----------------------------------------------------------------------------
(* SpecMeta: one field with the "required" validator and subscribers of its *)
(* meta$() stream, with the default delay and with a shorter one; changes,  *)
(* blur and disabling interleaved with the timers, explored to the end.     *)

MetaDelays == {50, 150}

NextMeta ==
    \/ Free(GetForm("login", NoArgument))
    \/ Free(GetField("login", "email", EmailOptions))
    \/ \E k \in OneField, v \in {"", "a@b.com"} : Free(Change(k, v))
    \/ \E k \in OneField : Free(Blur(k))
    \/ \E k \in OneField, b \in BOOLEAN : Free(SetIsDisabled(k, b))
    \/ \E k \in OneField, d \in MetaDelays : Free(SubscribeMeta(k, d))
    \/ \E j \in 1..MaxSubs, t \in {"error$", "meta$"} : Free(Timer(j, t))

SpecMeta == Init /\ [][NextMeta]_vars

-----------------------------------------------------------------------------
(* Properties *)

Range(seq) == {seq[i] : i \in DOMAIN seq}

IsLookup == last.op \in {"Formeer.getInstance", "FormeerField.getInstance"}

\* C1: in both registries every key has had exactly one constructor run, the
\* registry entry is the container that run made, and every lookup that
\* returns returns that container, also after destroy().
C1_OneContainerPerKey ==
    /\ DOMAIN built.forms = DOMAIN formInstances
    /\ DOMAIN built.fields = DOMAIN fieldInstances
    /\ \A n \in DOMAIN formInstances :
            built.forms[n] = 1 /\ formInstances[n].serial = 1
    /\ \A k \in DOMAIN fieldInstances :
            built.fields[k] = 1 /\ fieldInstances[k].serial = 1
    /\ IsLookup => last.ret.serial = 1

\* C1 witness: a field lookup that found its container in the registry, made
\* after the owning form was destroyed.
C1_Witness ==
    /\ last.op = "FormeerField.getInstance"
    /\ ~last.ret.fresh
    /\ last.ret.serial = 1
    /\ \E f \in DOMAIN formInstances :
            /\ formInstances[f].fieldNames # <<>>
            /\ formInstances[f].subscriptions = <<>>
            /\ last.on = Key(f, formInstances[f].fieldNames[1])

\* C2 as stated: for every name in a form's field-name sequence the values
\* object holds, at that name, the field's current (last emitted) value.
C2_TreeReflectsEveryField ==
    \A f \in DOMAIN formInstances :
        \A n \in Range(formInstances[f].fieldNames) :
            LodashGet(heap, formInstances[f].values, n) = fieldInstances[Key(f, n)].value

\* C2 amended: for every field whose value stream the form is still subscribed
\* to, the values object holds, at the field's name, the field's current value.
C2_TreeReflectsSubscribedFields ==
    \A f \in DOMAIN formInstances :
        \A k \in Range(formInstances[f].subscriptions) :
            LodashGet(heap, formInstances[f].values, fieldInstances[k].name)
                = fieldInstances[k].value

\* C2 witness: two fields are registered and subscribed, and a change of one
\* of them has just been written into the values object.
C2_Witness ==
    /\ last.op = "onChange"
    /\ last.arg = "a@b.com"
    /\ \E f \in DOMAIN formInstances :
            /\ Len(formInstances[f].fieldNames) = 2
            /\ last.on \in Range(formInstances[f].subscriptions)
            /\ LodashGet(heap, formInstances[f].values, fieldInstances[last.on].name)
                    = "a@b.com"

SubmitCalls == {i \in DOMAIN calls : calls[i].kind = "submitForm"}

\* C3: while the result of a submit handler that a submitForm() call invoked
\* is still pending, the form's isSubmitting is true.
C3_SubmittingWhilePending ==
    \A i \in SubmitCalls :
        calls[i].pc = "pending" => formInstances[calls[i].form].isSubmitting

\* C4: the values object a submitForm() call in flight hands to the handler
\* still has the content the values had when submitForm() was called.
C4_SnapshotKeepsCallTimeValues ==
    \A i \in SubmitCalls : heap[calls[i].values] = calls[i].atCall

\* C5: when a submit handler has returned synchronously, or its result has
\* just settled (fulfilled or rejected), and no other submitForm() call of the
\* form is in flight, the form's isSubmitting is false.
C5_NotSubmittingOnceSettled ==
    LET finished == last.op \in {"submitForm.resume", "submitForm.settle"}
        others == {i \in SubmitCalls : calls[i].form = last.on}
    IN  (finished /\ (~last.threw) /\ others = {})
            => ~formInstances[last.on].isSubmitting

\* C6: a submitForm() step on a form without a submit handler does not raise,
\* returns no result, starts no call and leaves the forms (isSubmitting, field
\* names), the fields and the values objects unchanged.
C6_SubmitWithoutHandlerIsNoOp ==
    [][ (last'.op = "submitForm" /\ formInstances[last'.on].submitHandler = Undefined)
        => /\ ~last'.threw
           /\ last'.ret = Undefined
           /\ UNCHANGED <<formInstances, fieldInstances, heap, calls>> ]_vars

\* C6 witness: submitForm() has just warned and returned on a form that has a
\* registered field holding a value.
C6_Witness ==
    /\ last.op = "submitForm"
    /\ last.warned
    /\ ~formInstances[last.on].isSubmitting
    /\ formInstances[last.on].fieldNames # <<>>
    /\ \E k \in DOMAIN fieldInstances : fieldInstances[k].value = "a@b.com"

\* C7: right after the lookup that constructs a form with initial values V,
\* the form's values are V.
C7_InitialValuesAreTheValues ==
    (last.op = "Formeer.getInstance" /\ last.ret.fresh /\ last.arg.given)
        => heap[formInstances[last.on].values] = last.arg.obj

\* C8: a values object a caller got from currentValues still has the content
\* it had when the caller got it.
C8_HeldValuesKeepTheirContent ==
    \A i \in DOMAIN held : heap[held[i].ref] = held[i].seen

HasValidator(k) == fieldInstances[k].validator # Undefined

\* C9 as stated: after onChange(v) on a field with a validator, v is stored,
\* the validator was called exactly once, with v and with form values holding
\* v at the field's name, and the stored error is what the validator returned
\* (a validator that raised returned nothing).
C9_ChangeValidatesOnce ==
    (last.op = "onChange" /\ HasValidator(last.on))
        => /\ fieldInstances[last.on].value = last.arg
           /\ Len(last.log) = 1
           /\ last.log[1].value = last.arg
           /\ last.log[1].own = last.arg
           /\ last.log[1].result # Throw
                => fieldInstances[last.on].error = last.log[1].result

\* C9 amended: after onChange(v) on a field with a validator, v is stored; a
\* disabled field's validator was not called; an enabled field's validator was
\* called exactly once, with v and, if the form is still subscribed to the
\* field, with form values holding v at the field's name; and if it returned,
\* the stored error is what it returned.
C9_ChangeValidatesEnabledField ==
    (last.op = "onChange" /\ HasValidator(last.on))
        => LET fld == fieldInstances[last.on]
           IN  /\ fld.value = last.arg
               /\ fld.isDisabled => last.log = <<>>
               /\ ~fld.isDisabled =>
                    /\ Len(last.log) = 1
                    /\ last.log[1].value = last.arg
                    /\ fld.form \in Range(fld.observers) => last.log[1].own = last.arg
                    /\ last.log[1].result # Throw => fld.error = last.log[1].result

\* C9 witness: onChange("") on an enabled, subscribed field with the
\* "required" validator has stored the error the validator returned.
C9_Witness ==
    /\ last.op = "onChange"
    /\ last.arg = ""
    /\ HasValidator(last.on)
    /\ ~fieldInstances[last.on].isDisabled
    /\ fieldInstances[last.on].observers # <<>>
    /\ Len(last.log) = 1
    /\ fieldInstances[last.on].error = "required"

\* C10: right after a field with a validator is constructed, the form values
\* hold the field's value at the field's name, the validator was called once
\* with that value and those form values, and (if it returned) the stored
\* error is what the validator gives for them.
C10_ConstructionValidates ==
    (last.op = "FormeerField.getInstance" /\ last.ret.fresh /\ HasValidator(last.on))
        => LET fld == fieldInstances[last.on]
               values == heap[formInstances[fld.form].values]
               r == Validate(fld.validator, fld.value, values)
           IN  /\ Prop(values, fld.name) = fld.value
               /\ Len(last.log) = 1
               /\ last.log[1].value = fld.value
               /\ last.log[1].own = fld.value
               /\ last.log[1].result = r
               /\ r # Throw => fld.error = r

\* C10 witness: a field constructed with initial value "" and the "required"
\* validator holds the error "required".
C10_Witness ==
    /\ last.op = "FormeerField.getInstance"
    /\ last.ret.fresh
    /\ HasValidator(last.on)
    /\ fieldInstances[last.on].value = ""
    /\ fieldInstances[last.on].error = "required"

\* the fields the last operation validated
Validated ==
    CASE last.op \in {"onChange", "onBlur", "runValidation"} -> {last.on}
      [] last.op = "FormeerField.getInstance" -> IF last.ret.fresh THEN {last.on} ELSE {}
      \* the fields whose names the call read before its await
      [] last.op = "triggerValidation.resume" ->
            {last.log[i].key : i \in DOMAIN last.log}
      [] OTHER -> {}

\* what validating field k now would store (Throw: the validator raises)
ValidationNow(k) ==
    Validate(fieldInstances[k].validator, fieldInstances[k].value,
             heap[formInstances[fieldInstances[k].form].values])

\* C11 as stated: in every state, every enabled field with a validator holds
\* as its stored error what the validator gives (when it gives anything) for
\* the field's current value and the form's current values.
C11_ErrorIsValidationOfCurrentValue ==
    \A k \in DOMAIN fieldInstances :
        (HasValidator(k) /\ ~fieldInstances[k].isDisabled /\ ValidationNow(k) # Throw)
            => fieldInstances[k].error = ValidationNow(k)

\* C11 amended: right after an operation that validates a field (construction,
\* onChange, onBlur, runValidation, triggerValidation), an enabled field with a
\* validator holds as its stored error what the validator gives for the
\* field's current value and the form's current values.
C11_ErrorIsValidationAfterValidating ==
    \A k \in Validated :
        (HasValidator(k) /\ ~fieldInstances[k].isDisabled /\ ValidationNow(k) # Throw)
            => fieldInstances[k].error = ValidationNow(k)

\* C11 witness: onBlur has validated an enabled field whose validator reads
\* the form values, and stored the error the validator gave.
C11_Witness ==
    /\ last.op = "onBlur"
    /\ fieldInstances[last.on].validator = "confirm"
    /\ ~fieldInstances[last.on].isDisabled
    /\ Len(last.log) = 1
    /\ fieldInstances[last.on].error = "mismatch"

\* C12: a setIsDisabled step leaves the field's stored error as it was and
\* calls no validator; and whenever the timers have run out, a subscriber of
\* error$(pure = true) has last received no error if the field is disabled and
\* the stored error if it is not.
C12_DisabledErrorIsHiddenNotCleared ==
    [][ /\ (last'.op = "setIsDisabled")
            => ( /\ fieldInstances'[last'.on].error = fieldInstances[last'.on].error
                 /\ last'.log = <<>> )
        /\ (last'.op = "quiet")
            => (\A i \in DOMAIN subs' :
                    (subs'[i].kind = "error$" /\ subs'[i].flag)
                        => ( /\ subs'[i].emitted
                             /\ subs'[i].error =
                                    (IF fieldInstances'[subs'[i].on].isDisabled
                                     THEN Undefined
                                     ELSE fieldInstances'[subs'[i].on].error) ))
      ]_vars

\* C12 witness: a field with stored error "required" is disabled, and the
\* subscriber of its error$(true) has last received no error.
C12_Witness ==
    \E i \in DOMAIN subs :
        /\ subs[i].kind = "error$"
        /\ subs[i].flag
        /\ ~subs[i].waiting
        /\ subs[i].emitted
        /\ subs[i].error = Undefined
        /\ fieldInstances[subs[i].on].isDisabled
        /\ fieldInstances[subs[i].on].error = "required"

\* the field of form f registered under name n
FieldOf(f, n) == fieldInstances[Key(f, n)]

\* the names of form f's fields that are touched
TouchedNames(f) == {n \in Range(formInstances[f].fieldNames) : FieldOf(f, n).isTouched}

\* both fields of the form are registered and enabled and hold an error
BothHaveErrors(f) ==
    /\ Range(formInstances[f].fieldNames) = FieldNames
    /\ \A n \in FieldNames : Truthy(FieldOf(f, n).error) /\ ~FieldOf(f, n).isDisabled

\* C13: whenever the timers have run out, what a subscriber of errors$(true)
\* has last received holds only errors of touched fields, at most one each; and
\* when both fields are enabled and have errors it has received the empty list
\* if neither is touched and exactly email's error if only email is touched.
C13_UntouchedErrorsAreHidden ==
    \A i \in DOMAIN subs :
        (subs[i].kind = "errors$" /\ subs[i].flag /\ ~subs[i].waiting)
            => LET f == subs[i].on
                   list == subs[i].list
               IN  /\ \A j \in DOMAIN list :
                        \E n \in TouchedNames(f) : FieldOf(f, n).error = list[j]
                   /\ Len(list) <= Cardinality(TouchedNames(f))
                   /\ (BothHaveErrors(f) /\ TouchedNames(f) = {})
                        => (subs[i].emitted /\ list = <<>>)
                   /\ (BothHaveErrors(f) /\ TouchedNames(f) = {"email"})
                        => (subs[i].emitted /\ list = <<FieldOf(f, "email").error>>)

\* C13 witness: email ("required") was blurred, pw ("mismatch") was not, and
\* the subscriber of errors$(true) has last received exactly email's error.
C13_Witness ==
    \E i \in DOMAIN subs :
        /\ subs[i].kind = "errors$"
        /\ subs[i].flag
        /\ ~subs[i].waiting
        /\ BothHaveErrors(subs[i].on)
        /\ FieldOf(subs[i].on, "email").error = "required"
        /\ FieldOf(subs[i].on, "pw").error = "mismatch"
        /\ TouchedNames(subs[i].on) = {"email"}
        /\ subs[i].list = <<"required">>

\* the errors of form f's registered fields that errors$(hideUntouched, filter)
\* is to list: non-empty, of enabled fields, of touched fields only when
\* hideUntouched, of the filter's names only when there is a filter
RECURSIVE ActiveErrors(_, _, _, _)
ActiveErrors(f, names, hideUntouched, filter) ==
    IF names = <<>> THEN <<>>
    ELSE LET fld == FieldOf(f, Head(names))
             listed == /\ filter.given => Head(names) \in Range(filter.names)
                       /\ Truthy(fld.error)
                       /\ ~fld.isDisabled
                       /\ hideUntouched => fld.isTouched
         IN  (IF listed THEN <<fld.error>> ELSE <<>>)
                \o ActiveErrors(f, Tail(names), hideUntouched, filter)

\* C14: whenever the timers have run out, a subscriber of errors$(hideUntouched,
\* filter) has received a list, and the last one it received is the active
\* errors of the form's currently registered fields in registration order.
C14_LastListIsTheActiveErrors ==
    \A i \in DOMAIN subs :
        (subs[i].kind = "errors$" /\ ~subs[i].waiting)
            => /\ subs[i].emitted
               /\ subs[i].list = ActiveErrors(subs[i].on, formInstances[subs[i].on].fieldNames,
                                              subs[i].flag, subs[i].filter)

\* C15: a blur step leaves the field touched and leaves its value and every
\* values object as they were; and a touched field is still touched after
\* any step other than setIsTouched(false) on that field.
C15_TouchedUntilSetUntouched ==
    [][ /\ (last'.op = "onBlur")
            => ( /\ fieldInstances'[last'.on].isTouched
                 /\ fieldInstances'[last'.on].value = fieldInstances[last'.on].value
                 /\ heap' = heap
                 /\ \A f \in DOMAIN formInstances :
                        formInstances'[f].values = formInstances[f].values )
        /\ \A k \in DOMAIN fieldInstances :
            ( /\ fieldInstances[k].isTouched
              /\ ~(last'.op = "setIsTouched" /\ last'.on = k /\ last'.arg = FALSE) )
                => fieldInstances'[k].isTouched
      ]_vars

\* C15 witness: the blur handler has run on a field that holds a value which
\* the values object holds too, and the field is touched.
C15_Witness ==
    /\ last.op = "onBlur"
    /\ fieldInstances[last.on].isTouched
    /\ fieldInstances[last.on].value = "a@b.com"
    /\ LodashGet(heap, formInstances[fieldInstances[last.on].form].values,
                 fieldInstances[last.on].name) = "a@b.com"

\* C16: a step that constructs a field on a form with initializeValues leaves
\* the field holding the value the form's values object held at the field's
\* name before the step, and leaves that value in the values object.
C16_TreeValueWinsOnRegistration ==
    [][ (last'.op = "FormeerField.getInstance" /\ last'.ret.fresh)
            => LET fld == fieldInstances'[last'.on]
                   before == LodashGet(heap, formInstances[fld.form].values, fld.name)
               IN  formInstances[fld.form].initializeValues
                       => ( /\ fld.value = before
                            /\ LodashGet(heap', formInstances'[fld.form].values, fld.name)
                                    = before )
      ]_vars

\* C16 witness: a field constructed with initial value "a@b.com" on a form with
\* initializeValues whose values object held "" at the field's name holds "".
C16_Witness ==
    /\ last.op = "FormeerField.getInstance"
    /\ last.ret.fresh
    /\ Prop(last.arg, "initialValue") = "a@b.com"
    /\ formInstances[fieldInstances[last.on].form].initializeValues
    /\ fieldInstances[last.on].value = ""
    /\ LodashGet(heap, formInstances[fieldInstances[last.on].form].values,
                 fieldInstances[last.on].name) = ""

\* C17: right after a field is constructed with an initial value v on a form
\* without initializeValues, every write the construction made into the values
\* object carried v at the field's name, there was at least one, and the values
\* object holds v at the field's name.
C17_FirstWriteCarriesInitialValue ==
    (last.op = "FormeerField.getInstance" /\ last.ret.fresh)
        => LET fld == fieldInstances[last.on]
               v == Prop(last.arg, "initialValue")
           IN  (v # Undefined /\ ~formInstances[fld.form].initializeValues)
                   => ( /\ last.writes # <<>>
                        /\ \A j \in DOMAIN last.writes :
                                last.writes[j] = [form |-> fld.form, name |-> fld.name,
                                                  value |-> v]
                        /\ LodashGet(heap, formInstances[fld.form].values, fld.name) = v )

\* C17 witness: a field constructed with initial value "a@b.com" on a form
\* without initializeValues, and the form's first write carried "a@b.com".
C17_Witness ==
    /\ last.op = "FormeerField.getInstance"
    /\ last.ret.fresh
    /\ Prop(last.arg, "initialValue") = "a@b.com"
    /\ ~formInstances[fieldInstances[last.on].form].initializeValues
    /\ Len(last.writes) = 1
    /\ last.writes[1].value = "a@b.com"
    /\ heap[formInstances[fieldInstances[last.on].form].values] = [email |-> "a@b.com"]

\* C18: after a destroy step the form is an observer of no field and holds no
\* subscription; and a change or setValue step on a field whose form no longer
\* holds the subscription it took when the field registered (only destroy
\* releases one) writes into no values object.
C18_DestroyedFormIgnoresChanges ==
    [][ /\ (last'.op = "destroy")
            => ( /\ formInstances'[last'.on].subscriptions = <<>>
                 /\ \A k \in DOMAIN fieldInstances' :
                        last'.on \notin Range(fieldInstances'[k].observers) )
        /\ (last'.op \in {"onChange", "setValue"})
            => LET fld == fieldInstances[last'.on]
               IN  (last'.on \notin Range(formInstances[fld.form].subscriptions))
                       => ( /\ heap' = heap
                            /\ last'.writes = <<>>
                            /\ \A f \in DOMAIN formInstances :
                                   formInstances'[f].values = formInstances[f].values )
      ]_vars

\* C18 witness: a change handler has stored "a@b.com" in a field of a destroyed
\* form, and the form's values object does not hold it.
C18_Witness ==
    /\ last.op = "onChange"
    /\ last.arg = "a@b.com"
    /\ fieldInstances[last.on].value = "a@b.com"
    /\ formInstances[fieldInstances[last.on].form].subscriptions = <<>>
    /\ LodashGet(heap, formInstances[fieldInstances[last.on].form].values,
                 fieldInstances[last.on].name) # "a@b.com"

\* C19: no destroy step raises; and a destroy step on a form that holds no
\* subscription (destroyed before, or without fields) leaves the forms, the
\* fields, the values objects and the calls in flight exactly as they were.
C19_DestroyIsIdempotent ==
    [][ (last'.op = "destroy")
            => ( /\ ~last'.threw
                 /\ (formInstances[last'.on].subscriptions = <<>>)
                        => UNCHANGED <<formInstances, fieldInstances, heap, calls>> )
      ]_vars

\* C19 witness: destroy() has run on a form with a registered field and found
\* no subscription to release (an earlier destroy released it), while a
\* submission is in flight.
C19_Witness ==
    /\ last.op = "destroy"
    /\ last.arg = 0
    /\ ~last.threw
    /\ formInstances[last.on].fieldNames # <<>>
    /\ formInstances[last.on].isSubmitting

\* C20: a lookup step (of a form or of a field) that finds its container in the
\* registry leaves the forms, the fields, the values objects and the calls in
\* flight exactly as they were, whatever options it is given.
C20_SecondLookupIgnoresOptions ==
    [][ (IsLookup' /\ ~last'.ret.fresh)
            => UNCHANGED <<formInstances, fieldInstances, heap, calls>>
      ]_vars

\* C20 witness: a field lookup that found the container was given options whose
\* validator is not the one the container was constructed with.
C20_Witness ==
    /\ last.op = "FormeerField.getInstance"
    /\ ~last.ret.fresh
    /\ Prop(last.arg, "initialValue") = "a@b.com"
    /\ Prop(last.arg, "validator") = Undefined
    /\ fieldInstances[last.on].validator = "required"
    /\ fieldInstances[last.on].value = ""

\* C21: with the form "login" obtained with initial values {email: ""} and the
\* field "email" obtained with the validator "required": neither lookup raises,
\* and onChange("a@b.com") does not raise and leaves the field without an error
\* and the values object holding "a@b.com" at "email".
C21_LoginScenarioCompletes ==
    /\ IsLookup => ~last.threw
    /\ (last.op = "onChange" /\ last.arg = "a@b.com")
            => ( /\ ~last.threw
                 /\ fieldInstances[last.on].error = Undefined
                 /\ LodashGet(heap, formInstances["login"].values, "email") = "a@b.com" )

\* C29: a lookup that constructs a field without an initial value, on a form
\* that was not given initializeValues, leaves the value the form's values
\* object holds at the field's name as it was.
C29_RegistrationKeepsTheTreeValue ==
    [][ ( /\ last'.op = "FormeerField.getInstance"
          /\ last'.on \notin DOMAIN fieldInstances
          /\ last'.on \in DOMAIN fieldInstances'
          /\ "initialValue" \notin DOMAIN last'.arg
          /\ ~formInstances[fieldInstances'[last'.on].form].initializeValues )
        => LET f == fieldInstances'[last'.on].form
               name == fieldInstances'[last'.on].name
           IN  LodashGet(heap', formInstances'[f].values, name)
                   = LodashGet(heap, formInstances[f].values, name) ]_vars

\* C30: two different (form, field name) pairs never resolve to the same
\* container: the container the registry holds for a form and a field name is
\* the one of that form and that name, also when a name contains a '-'.
C30_DistinctPairsDistinctContainers ==
    \A f \in DOMAIN formInstances, n \in RegistryFields :
        Key(f, n) \in DOMAIN fieldInstances
            => /\ fieldInstances[Key(f, n)].form = f
               /\ fieldInstances[Key(f, n)].name = n

\* the fields a triggerValidation() that has just completed was to validate:
\* those of the names it read before its await
NamedFields == {Key(last.on, last.arg[i]) : i \in DOMAIN last.arg}

\* triggerValidation() changes no field's value, touched flag or disabled
\* flag and no part of any values object
TriggerValidationFrame ==
    /\ heap' = heap
    /\ \A f \in DOMAIN formInstances : formInstances'[f].values = formInstances[f].values
    /\ \A k \in DOMAIN fieldInstances :
            /\ fieldInstances'[k].value = fieldInstances[k].value
            /\ fieldInstances'[k].isTouched = fieldInstances[k].isTouched
            /\ fieldInstances'[k].isDisabled = fieldInstances[k].isDisabled

\* C23 as stated: when triggerValidation() completes, every field named when it
\* was called that has a validator holds as its error what the validator gives
\* for its current value and the form's current values (when it gives
\* anything for them); no value, touched flag, disabled flag or part of the
\* values object has changed.
C23_TriggerValidationValidatesEveryField ==
    [][ (last'.op = "triggerValidation.resume" /\ ~last'.threw)
        => /\ \A k \in NamedFields' :
                (HasValidator(k)' /\ ValidationNow(k)' # Throw)
                    => fieldInstances'[k].error = ValidationNow(k)'
           /\ TriggerValidationFrame ]_vars

\* C23 amended: when triggerValidation() completes, every enabled field named
\* when it was called that has a validator holds as its error what the
\* validator gives for its current value and the form's current values, a
\* disabled one keeps the error it had; no value, touched flag, disabled flag
\* or part of the values object has changed.
C23_TriggerValidationValidatesEnabledFields ==
    [][ (last'.op = "triggerValidation.resume" /\ ~last'.threw)
        => /\ \A k \in NamedFields' :
                /\ (HasValidator(k)' /\ ~fieldInstances'[k].isDisabled)
                        => fieldInstances'[k].error = ValidationNow(k)'
                /\ fieldInstances'[k].isDisabled
                        => fieldInstances'[k].error = fieldInstances[k].error
           /\ TriggerValidationFrame ]_vars

\* C23 witness: a triggerValidation() called with "email" registered has
\* completed, having validated the enabled field's value "" and replaced a
\* forced error by "required".
C23_Witness ==
    /\ last.op = "triggerValidation.resume"
    /\ ~last.threw
    /\ last.arg = <<"email">>
    /\ Len(last.log) = 1
    /\ last.log[1].value = ""
    /\ ~fieldInstances[Key("login", "email")].isDisabled
    /\ fieldInstances[Key("login", "email")].error = "required"

\* the operations in which a field sends a value down its setValue$
EmittingOps == {"FormeerField.getInstance", "onChange", "setValue"}

\* C24: a form's values object changes only in a step in which a field the
\* form is subscribed to emits a value (construction, onChange, setValue):
\* every other step (setError, setIsTouched, setIsDisabled, onBlur,
\* runValidation, triggerValidation, setSubmitFormHandler, submitForm and their
\* continuations, lookups that find their container, destroy) leaves every
\* form's values object, and the form's reference to it, as they were.
C24_TreeChangesOnlyOnValueEmission ==
    [][ \A f \in DOMAIN formInstances :
            /\ formInstances'[f].values = formInstances[f].values
            /\ heap'[formInstances'[f].values] # heap[formInstances[f].values]
                    => ( /\ last'.op \in EmittingOps
                         /\ \E i \in DOMAIN last'.writes : last'.writes[i].form = f )
      ]_vars

\* C24 witness: setIsDisabled(true) has run on a registered field whose value
\* "a@b.com" the form's values object holds, and it still holds it.
C24_Witness ==
    /\ last.op = "setIsDisabled"
    /\ last.arg = TRUE
    /\ fieldInstances[last.on].isDisabled
    /\ fieldInstances[last.on].observers # <<>>
    /\ LodashGet(heap, formInstances[fieldInstances[last.on].form].values,
                 fieldInstances[last.on].name) = "a@b.com"

C26_SubmittingWhileAnotherPending ==
    ( /\ last.op = "submitForm.settle"
      /\ \E i \in SubmitCalls : calls[i].form = last.on /\ calls[i].pc = "pending" )
        => formInstances[last.on].isSubmitting

\* C27: the continuation of a submitForm() call invokes exactly one handler,
\* once: the handler the form had when submitForm() was called.
C27_InvokesHandlerOfCallTime ==
    last.op = "submitForm.resume" => last.invoked = <<last.arg>>

\* the registered field names of its form that subscription s selects
SelectedNames(s) ==
    LET Kept(name) == s.filter.given => name \in Range(s.filter.names)
    IN  SelectSeq(formInstances[s.on].fieldNames, Kept)

\* C28: whenever the timers have run out, a subscriber of errors$ on a form of
\* which no registered field passes the filter (no field at all, or a filter
\* that selects none) has received a list, and the last one is empty.
C28_NoFieldsYieldsEmptyList ==
    \A i \in DOMAIN subs :
        ( /\ subs[i].kind = "errors$"
          /\ ~subs[i].waiting
          /\ SelectedNames(subs[i]) = <<>> )
            => subs[i].emitted /\ subs[i].list = <<>>

\* the snapshot of field k's state: the error is suppressed while disabled
MetaNow(k) ==
    [error |-> error_stream(fieldInstances, k, TRUE).error,
     isDisabled |-> fieldInstances[k].isDisabled,
     isTouched |-> fieldInstances[k].isTouched,
     value |-> fieldInstances[k].value]

\* C22: once every timer of a meta$() subscription has run out, the subscriber
\* has received exactly one snapshot since the field's state last changed, and
\* that snapshot is the field's state (error suppressed if disabled).
C22_BurstYieldsOneSnapshot ==
    \A j \in DOMAIN metas :
        metas[j].timers = <<>>
            => /\ metas[j].count = 1
               /\ metas[j].snapshot = MetaNow(metas[j].on)

\* C31: the last snapshot a meta$(debounceDelay) subscriber received, whatever
\* the delay, carries no error if its isDisabled is true (before the first
\* snapshot the record holds isDisabled false).
C31_DisabledSnapshotCarriesNoError ==
    \A j \in DOMAIN metas :
        metas[j].snapshot.isDisabled => metas[j].snapshot.error = Undefined

====
